---- MODULE Spec2Model ----
(***************************************************************************)
(* A model of the algorithmic core of the AI learning coach backend:       *)
(*   - KnowledgeGraph             (services/knowledge_graph.py)            *)
(*   - SpacedRepetitionService    (services/spaced_repetition.py)          *)
(* Each component has its own specification (SpecKG, SpecSM2, SpecSM2Any); *)
(* the components share no state, so a specification leaves the other      *)
(* component's variables unchanged.                                        *)
(***************************************************************************)
EXTENDS Integers, Sequences, FiniteSets, TLC

(***************************************************************************)
(* Bounds of the model.                                                    *)
(***************************************************************************)
\* add_topic calls made on one KnowledgeGraph instance
MaxAdds == 4
\* calculate_next_review calls made on one ReviewItem, from its defaults
MaxReviews == 6
\* calculate_next_review calls chained from an arbitrary ReviewItem
MaxChain == 3
\* the largest interval_days and repetition_count of an arbitrary ReviewItem
MaxIntervalInput == 7
MaxRepetitionInput == 3
\* add_performance_record calls: with records of every kind, with one
\* learner until the window of recent results has slid, and with one learner
\* whose statistics are analysed
MaxRecords == 4
MaxWindowRecords == 12
MaxAnalysedRecords == 9
\* the longest list of ReviewItems handed to optimize_daily_load
MaxItems == 4
\* the frames the interpreter allows the recursion of get_topic_depth
\* (the recursion limit)
MaxStack == 4

(***************************************************************************)
(* KnowledgeGraph: inputs.                                                 *)
(***************************************************************************)
Ids == {"A", "B", "C"}

\* A topic record as add_topic reads it: topic_data['id'],
\* topic_data.get('prerequisites', []), and, in the path planner,
\* .get('difficulty_level', 1).
Topic(id, difficulty, prereqs) ==
    [id |-> id, difficulty_level |-> difficulty, prerequisites |-> prereqs]

\* The topic records add_topic is called with.  The set holds the chain of
\* the specification's scenario (A, B after A, C after B), a topic with two
\* prerequisites, a repeated prerequisite, records that replace a topic's
\* prerequisite list, and records that close a prerequisite cycle.  A record
\* whose prerequisite has not been added yet refers to an unknown id.
TopicCatalogue ==
    { Topic("A", 1, <<>>),
      Topic("A", 1, <<"C">>),
      Topic("B", 2, <<>>),
      Topic("B", 2, <<"A">>),
      Topic("B", 1, <<"A", "A">>),
      Topic("C", 1, <<"A">>),
      Topic("C", 1, <<"B">>),
      Topic("C", 1, <<"A", "B">>) }

VARIABLES
    \* ---- KnowledgeGraph fields
    topics,             \* self.topics: id -> topic record (domain: ids added)
    adjacency_list,     \* self.adjacency_list: id -> prerequisite ids
    reverse_adjacency,  \* self.reverse_adjacency: id -> dependent ids
    nAdds,              \* number of add_topic calls made so far
    \* ---- one get_learning_path call in progress
    pc,                 \* "idle" | "topo" | "done" | "raised"
    target,             \* target_topic_id
    completed,          \* set(completed_topics)
    required_topics,    \* the BFS result
    in_degree,          \* the in-degree counters
    queue,              \* the topological sort's work list
    sorted_path,        \* ids of the topic records appended so far
    topic_order         \* the keys of self.topics in insertion order

kgVars == <<topics, adjacency_list, reverse_adjacency, nAdds,
            pc, target, completed, required_topics, in_degree, queue,
            sorted_path, topic_order>>

VARIABLES
    \* ---- the recommend_next_topics call just made (pc = "recommended")
    rec_args,           \* its arguments
    weak_order,         \* the order in which it walked set(weak_topics)
    recommendations     \* the list it returned

recVars == <<rec_args, weak_order, recommendations>>

VARIABLES
    \* ---- one learner's review state for one topic (spaced repetition)
    item,               \* the ReviewItem the last call returned, whose
                        \* fields the caller stores
    review_item,        \* the ReviewItem passed to the last call, as it
                        \* is after the call
    quality,            \* the quality passed to the last call
    nReviews,           \* number of calculate_next_review calls so far
    items               \* the service's own map, self.items

smVars == <<item, review_item, quality, nReviews, items>>

VARIABLES
    \* ---- convert_score_to_quality
    conversions         \* the last two calls, oldest first: score, quality

scVars == <<conversions>>

VARIABLES
    \* ---- WeaknessDetector
    performance_history,    \* user -> the records added, in arrival order
    topic_stats,            \* user -> the per-topic statistics, in the
                            \* order the topics were first seen
    nRecords,               \* number of add_performance_record calls
    wd_pc,                  \* "idle", or "analysed" while a result is held
    analysis_args,          \* the arguments of the last analyze_weaknesses
    analysis                \* the WeaknessAnalysis it returned

wdVars == <<performance_history, topic_stats, nRecords, wd_pc,
            analysis_args, analysis>>

VARIABLES
    \* ---- optimize_daily_load
    ld_pc,              \* "idle", "loop" inside the call, "returned"
    ld_args,            \* the arguments of the call
    schedule,           \* get_study_schedule's buckets, in date order
    day,                \* the position of the bucket the loop takes next
    overflow,           \* the items carried forward
    adjusted_items      \* the output list so far

ldVars == <<ld_pc, ld_args, schedule, day, overflow, adjusted_items>>

VARIABLES
    \* ---- calculate_retention_score
    rt_pc,              \* "idle", or "scored" while a result is held
    rt_items,           \* the list the call was given
    rt_score            \* the score it returned, as <<numerator, denominator>>

rtVars == <<rt_pc, rt_items, rt_score>>

VARIABLES
    \* ---- one get_topic_depth call in progress (pc is "depth" while it
    \* runs, then "depth_returned" or "depth_raised")
    depth_target,       \* the topic_id of the outermost call
    depth_stack,        \* the frames of the recursion, innermost last
    depth_result        \* the depth returned: {} until there is one

dpVars == <<depth_target, depth_stack, depth_result>>

vars == <<kgVars, recVars, smVars, scVars, wdVars, ldVars, rtVars, dpVars>>

\* What each component leaves alone.
otherThanKG == <<smVars, scVars, wdVars, ldVars, rtVars, dpVars>>
otherThanSM == <<kgVars, recVars, scVars, wdVars, ldVars, rtVars, dpVars>>
otherThanSC == <<kgVars, recVars, smVars, wdVars, ldVars, rtVars, dpVars>>
otherThanWD == <<kgVars, recVars, smVars, scVars, ldVars, rtVars, dpVars>>
otherThanLD == <<kgVars, recVars, smVars, scVars, wdVars, rtVars, dpVars>>
otherThanRT == <<kgVars, recVars, smVars, scVars, wdVars, ldVars, dpVars>>
otherThanDepth == <<recVars, smVars, scVars, wdVars, ldVars, rtVars>>

NoId == "none"

(***************************************************************************)
(* KnowledgeGraph.__init__ with no knowledge base file.                    *)
(***************************************************************************)
KGIdle ==
    /\ pc = "idle"
    /\ target = NoId
    /\ completed = {}
    /\ required_topics = {}
    /\ in_degree = [t \in Ids |-> 0]
    /\ queue = <<>>
    /\ sorted_path = <<>>

\* No recommend_next_topics call is held.
NoArgs == [completed_topics |-> {}, weak_topics |-> <<>>,
           max_recommendations |-> 0]

KGInit ==
    /\ topics = <<>>
    /\ adjacency_list = [t \in Ids |-> <<>>]
    /\ reverse_adjacency = [t \in Ids |-> <<>>]
    /\ nAdds = 0
    /\ topic_order = <<>>
    /\ KGIdle
    /\ rec_args = NoArgs
    /\ weak_order = <<>>
    /\ recommendations = <<>>
    /\ depth_target = NoId
    /\ depth_stack = <<>>
    /\ depth_result = {}

(***************************************************************************)
(* add_topic                                                               *)
(***************************************************************************)
\* for prereq in prerequisites: self.reverse_adjacency[prereq].append(topic_id)
RECURSIVE AppendDependent(_, _, _)
AppendDependent(rev, prerequisites, topic_id) ==
    IF prerequisites = <<>> THEN rev
    ELSE AppendDependent(
             [rev EXCEPT ![Head(prerequisites)] = Append(@, topic_id)],
             Tail(prerequisites), topic_id)

AddTopic(topic_data) ==
    LET topic_id == topic_data.id
        prerequisites == topic_data.prerequisites
    IN  /\ pc = "idle"
        /\ nAdds < MaxAdds
        /\ nAdds' = nAdds + 1
        /\ topics' = [t \in (DOMAIN topics) \cup {topic_id} |->
                         IF t = topic_id THEN topic_data ELSE topics[t]]
        /\ adjacency_list' = [adjacency_list EXCEPT ![topic_id] = prerequisites]
        /\ reverse_adjacency' =
               AppendDependent(reverse_adjacency, prerequisites, topic_id)
        /\ topic_order' = IF topic_id \in DOMAIN topics THEN topic_order
                          ELSE Append(topic_order, topic_id)
        /\ UNCHANGED <<pc, target, completed, required_topics, in_degree,
                       queue, sorted_path>>
        /\ UNCHANGED <<recVars, otherThanKG>>

(***************************************************************************)
(* get_learning_path                                                       *)
(***************************************************************************)
\* The BFS loop of lines 77-84: the queue and the visited set after the loop.
RECURSIVE BfsRequired(_, _, _)
BfsRequired(q, required, done) ==
    IF q = <<>> THEN required
    ELSE LET current == Head(q)
         IN  IF current \in required \/ current \in done
             THEN BfsRequired(Tail(q), required, done)
             ELSE BfsRequired(Tail(q) \o adjacency_list[current],
                              required \cup {current}, done)

\* Lines 87-91: one increment per entry of the prerequisite list that is
\* itself required (a prerequisite listed twice counts twice).
RECURSIVE CountRequired(_, _)
CountRequired(prereqs, required) ==
    IF prereqs = <<>> THEN 0
    ELSE (IF Head(prereqs) \in required THEN 1 ELSE 0)
         + CountRequired(Tail(prereqs), required)

InDegree(required) ==
    [t \in Ids |-> IF t \in required
                   THEN CountRequired(adjacency_list[t], required)
                   ELSE 0]

\* SortByDifficulty without the sort of line 99: the queue as it stands.
KeepQueueOrder(q) == q

\* self.topics.get(t, {}).get('difficulty_level', 1)
DifficultyKey(t) ==
    IF t \in DOMAIN topics THEN topics[t].difficulty_level ELSE 1

\* list.sort(key=...) is stable: an element goes after every element whose
\* key is not greater.
RECURSIVE InsertByKey(_, _)
InsertByKey(sorted, t) ==
    IF sorted = <<>> THEN <<t>>
    ELSE IF DifficultyKey(Head(sorted)) <= DifficultyKey(t)
         THEN <<Head(sorted)>> \o InsertByKey(Tail(sorted), t)
         ELSE <<t>> \o sorted

RECURSIVE SortFrom(_, _)
SortFrom(sorted, rest) ==
    IF rest = <<>> THEN sorted
    ELSE SortFrom(InsertByKey(sorted, Head(rest)), Tail(rest))

SortByDifficulty(q) == SortFrom(<<>>, q)

\* The orders in which a list comprehension may walk a set of strings
\* (the iteration order of a Python set of str depends on the hash seed).
Orderings(S) ==
    { s \in [1..Cardinality(S) -> S] :
        \A i, j \in 1..Cardinality(S) : i # j => s[i] # s[j] }

\* Lines 71-95: the BFS, the in-degree count and the initial queue.
StartLearningPath(target_topic_id, completed_topics) ==
    LET required == BfsRequired(<<target_topic_id>>, {}, completed_topics)
        deg == InDegree(required)
    IN  /\ pc = "idle"
        /\ pc' = "topo"
        /\ target' = target_topic_id
        /\ completed' = completed_topics
        /\ required_topics' = required
        /\ in_degree' = deg
        /\ \E order \in Orderings({t \in required : deg[t] = 0}) :
               queue' = order
        /\ sorted_path' = <<>>
        /\ UNCHANGED <<topic_order,
                   topics, adjacency_list, reverse_adjacency, nAdds>>
        /\ UNCHANGED <<recVars, otherThanKG>>

\* Lines 103-107: the walk over reverse_adjacency.get(current, []); the
\* result is the pair of the counters and the queue after the walk.
RECURSIVE ReleaseDependents(_, _, _)
ReleaseDependents(dependents, deg, q) ==
    IF dependents = <<>> THEN <<deg, q>>
    ELSE LET dependent == Head(dependents)
         IN  IF dependent \in required_topics
             THEN LET deg2 == [deg EXCEPT ![dependent] = @ - 1]
                  IN  ReleaseDependents(
                          Tail(dependents), deg2,
                          IF deg2[dependent] = 0 THEN Append(q, dependent)
                          ELSE q)
             ELSE ReleaseDependents(Tail(dependents), deg, q)

\* Lines 97-107: one iteration of the topological sort's loop.  The lookup
\* self.topics[current] raises KeyError for an id that was never added.
TopoStep ==
    /\ pc = "topo"
    /\ queue # <<>>
    /\ LET sorted == SortByDifficulty(queue)
           current == Head(sorted)
       IN  IF current \notin DOMAIN topics
           THEN /\ pc' = "raised"
                /\ queue' = Tail(sorted)
                /\ UNCHANGED <<in_degree, sorted_path>>
           ELSE LET after == ReleaseDependents(reverse_adjacency[current],
                                               in_degree, Tail(sorted))
                IN  /\ pc' = "topo"
                    /\ sorted_path' = Append(sorted_path, current)
                    /\ in_degree' = after[1]
                    /\ queue' = after[2]
    /\ UNCHANGED <<topic_order,
                   topics, adjacency_list, reverse_adjacency, nAdds,
                   target, completed, required_topics>>
    /\ UNCHANGED <<recVars, otherThanKG>>

\* Line 109: the loop ends and sorted_path is returned.
ReturnLearningPath ==
    /\ pc = "topo"
    /\ queue = <<>>
    /\ pc' = "done"
    /\ UNCHANGED <<topic_order,
                   topics, adjacency_list, reverse_adjacency, nAdds,
                   target, completed, required_topics, in_degree, queue,
                   sorted_path>>
    /\ UNCHANGED <<recVars, otherThanKG>>

\* The caller has the result (or the exception); the next call may start.
FinishCall ==
    /\ pc \in {"done", "raised"}
    /\ pc' = "idle"
    /\ target' = NoId
    /\ completed' = {}
    /\ required_topics' = {}
    /\ in_degree' = [t \in Ids |-> 0]
    /\ queue' = <<>>
    /\ sorted_path' = <<>>
    /\ UNCHANGED <<topic_order,
                   topics, adjacency_list, reverse_adjacency, nAdds>>
    /\ UNCHANGED <<recVars, otherThanKG>>

(***************************************************************************)
(* recommend_next_topics                                                   *)
(***************************************************************************)
WeakInputs ==
    { <<>>, <<"A">>, <<"B", "A">>, <<"A", "B">>, <<"C", "B">>, <<"A", "A">> }

MaxRecommendationsInputs == {1, 2, 5}

\* topic.copy() with its recommendation_reason.
Recommendation(topic_id, reason) ==
    [topic |-> topics[topic_id], recommendation_reason |-> reason]

\* Lines 124-128, walking the set weak in the given order.
WeakRecommendations(order) ==
    LET present == SelectSeq(order, LAMBDA t : t \in DOMAIN topics)
    IN  [i \in 1..Len(present) |->
            Recommendation(present[i],
                           "Review recommended due to weakness")]

\* Lines 131-139, walking self.topics.items().
UnlockedRecommendations(completed_topics) ==
    LET unlocked ==
            SelectSeq(topic_order,
                      LAMBDA t :
                          /\ t \notin completed_topics
                          /\ {adjacency_list[t][i] :
                                  i \in DOMAIN adjacency_list[t]}
                                 \subseteq completed_topics)
    IN  [i \in 1..Len(unlocked) |->
            Recommendation(unlocked[i], "Prerequisites completed")]

\* InsertRecommendation putting an entry before the entries of equal key.
InsertRecommendationBeforeEqual(sorted, r) ==
    LET before == SelectSeq(sorted,
                            LAMBDA x : x.topic.difficulty_level
                                           < r.topic.difficulty_level)
        after == SelectSeq(sorted,
                           LAMBDA x : x.topic.difficulty_level
                                          >= r.topic.difficulty_level)
    IN  before \o <<r>> \o after

\* Line 142: list.sort(key=difficulty_level) is stable, an entry goes after
\* every entry whose key is not greater.
InsertRecommendation(sorted, r) ==
    LET before == SelectSeq(sorted,
                            LAMBDA x : x.topic.difficulty_level
                                           <= r.topic.difficulty_level)
        after == SelectSeq(sorted,
                           LAMBDA x : x.topic.difficulty_level
                                          > r.topic.difficulty_level)
    IN  before \o <<r>> \o after

RECURSIVE SortRecommendations(_, _)
SortRecommendations(sorted, rest) ==
    IF rest = <<>> THEN sorted
    ELSE SortRecommendations(InsertRecommendation(sorted, Head(rest)),
                             Tail(rest))

\* seq[:n] for n >= 0.
Take(seq, n) == IF Len(seq) <= n THEN seq ELSE SubSeq(seq, 1, n)

RecommendNextTopics(order, completed_topics, max_recommendations) ==
    Take(SortRecommendations(<<>>,
             WeakRecommendations(order)
                 \o UnlockedRecommendations(completed_topics)),
         max_recommendations)

\* One call.  The set weak is walked in an order the hash seed decides.
Recommend(completed_topics, weak_topics, max_recommendations) ==
    /\ pc = "idle"
    /\ pc' = "recommended"
    /\ rec_args' = [completed_topics |-> completed_topics,
                    weak_topics |-> weak_topics,
                    max_recommendations |-> max_recommendations]
    /\ \E order \in Orderings({weak_topics[i] : i \in DOMAIN weak_topics}) :
           /\ weak_order' = order
           /\ recommendations' =
                  RecommendNextTopics(order, completed_topics,
                                      max_recommendations)
    /\ UNCHANGED <<topics, adjacency_list, reverse_adjacency, nAdds,
                   target, completed, required_topics, in_degree, queue,
                   sorted_path, topic_order>>
    /\ UNCHANGED otherThanKG

\* The caller has the recommendations; the next call may start.
FinishRecommend ==
    /\ pc = "recommended"
    /\ pc' = "idle"
    /\ rec_args' = NoArgs
    /\ weak_order' = <<>>
    /\ recommendations' = <<>>
    /\ UNCHANGED <<topics, adjacency_list, reverse_adjacency, nAdds,
                   target, completed, required_topics, in_degree, queue,
                   sorted_path, topic_order>>
    /\ UNCHANGED otherThanKG

RecNext ==
    \/ \E topic_data \in TopicCatalogue : AddTopic(topic_data)
    \/ \E c \in SUBSET Ids, w \in WeakInputs,
          n \in MaxRecommendationsInputs : Recommend(c, w, n)
    \/ FinishRecommend

KGNext ==
    \/ \E topic_data \in TopicCatalogue : AddTopic(topic_data)
    \/ \E t \in Ids, c \in SUBSET Ids : StartLearningPath(t, c)
    \/ TopoStep
    \/ ReturnLearningPath
    \/ FinishCall

(***************************************************************************)
(* get_topic_depth.  The recursion is a stack of frames; a frame holds the *)
(* prerequisites its loop has still to visit and its max_depth.  The       *)
(* interpreter allows MaxStack frames and raises RecursionError in the     *)
(* call that would need one more.                                          *)
(***************************************************************************)
Max(a, b) == IF a >= b THEN a ELSE b

Min(a, b) == IF a <= b THEN a ELSE b

\* Lines 147-151: the frame of a call.  An unknown id returns 0 at once,
\* as a frame without prerequisites does.
Frame(topic_id) ==
    [topic_id |-> topic_id,
     prereqs |-> IF topic_id \in DOMAIN topics
                 THEN adjacency_list[topic_id] ELSE <<>>,
     max_depth |-> 0]

\* ReturnInto without the + 1 of line 154.
ReturnIntoNoIncrement(frame, returned) ==
    [frame EXCEPT !.prereqs = Tail(@),
                  !.max_depth = Max(@, returned)]

\* Lines 154-155 in the caller, once get_topic_depth(prereq) has returned.
ReturnInto(frame, returned) ==
    [frame EXCEPT !.prereqs = Tail(@),
                  !.max_depth = Max(@, returned + 1)]

DepthUnchanged ==
    UNCHANGED <<topics, adjacency_list, reverse_adjacency, nAdds,
                topic_order, target, completed, required_topics, in_degree,
                queue, sorted_path, otherThanDepth>>

\* A call of get_topic_depth(topic_id) from outside.
StartDepth(topic_id) ==
    /\ pc = "idle"
    /\ pc' = "depth"
    /\ depth_target' = topic_id
    /\ depth_stack' = <<Frame(topic_id)>>
    /\ depth_result' = {}
    /\ DepthUnchanged

\* Line 154: the loop of the innermost frame calls get_topic_depth(prereq).
DepthCall ==
    /\ pc = "depth"
    /\ depth_stack[Len(depth_stack)].prereqs # <<>>
    /\ Len(depth_stack) < MaxStack
    /\ depth_stack' =
           Append(depth_stack,
                  Frame(Head(depth_stack[Len(depth_stack)].prereqs)))
    /\ UNCHANGED <<pc, depth_target, depth_result>>
    /\ DepthUnchanged

\* Line 154 with no frame left: RecursionError unwinds the whole recursion.
DepthRaise ==
    /\ pc = "depth"
    /\ depth_stack[Len(depth_stack)].prereqs # <<>>
    /\ Len(depth_stack) >= MaxStack
    /\ pc' = "depth_raised"
    /\ depth_stack' = <<>>
    /\ UNCHANGED <<depth_target, depth_result>>
    /\ DepthUnchanged

\* Lines 148 and 157: the innermost call returns to the call under it.
DepthReturnInner ==
    /\ pc = "depth"
    /\ depth_stack[Len(depth_stack)].prereqs = <<>>
    /\ Len(depth_stack) > 1
    /\ depth_stack' =
           LET n == Len(depth_stack)
           IN  [SubSeq(depth_stack, 1, n - 1) EXCEPT
                   ![n - 1] = ReturnInto(@, depth_stack[n].max_depth)]
    /\ UNCHANGED <<pc, depth_target, depth_result>>
    /\ DepthUnchanged

\* Lines 148 and 157: the outermost call returns to its caller.
DepthReturnOuter ==
    /\ pc = "depth"
    /\ depth_stack[Len(depth_stack)].prereqs = <<>>
    /\ Len(depth_stack) = 1
    /\ pc' = "depth_returned"
    /\ depth_result' = {depth_stack[1].max_depth}
    /\ depth_stack' = <<>>
    /\ UNCHANGED depth_target
    /\ DepthUnchanged

\* The caller has the depth (or the exception); the next call may start.
FinishDepth ==
    /\ pc \in {"depth_returned", "depth_raised"}
    /\ pc' = "idle"
    /\ depth_target' = NoId
    /\ depth_stack' = <<>>
    /\ depth_result' = {}
    /\ DepthUnchanged

DepthRun ==
    \/ DepthCall
    \/ DepthRaise
    \/ DepthReturnInner
    \/ DepthReturnOuter

DepthNext ==
    \/ \E topic_data \in TopicCatalogue : AddTopic(topic_data)
    \/ \E topic_id \in Ids : StartDepth(topic_id)
    \/ DepthRun
    \/ FinishDepth

(***************************************************************************)
(* SpacedRepetitionService.  ease_factor is held in hundredths (2.5 is     *)
(* 250): every term of the ease update is a whole number of hundredths.    *)
(***************************************************************************)
MIN_EASE_FACTOR == 130
INITIAL_EASE_FACTOR == 250

Qualities == 0..5
NoQuality == "none"

\* Qualities a caller can pass: the parameter is an unchecked int.
QualityInputs == -1..6

\* An optional date is a set: empty for None, and otherwise holding the date
\* as a number of days counted from the moment of the call that set it.
NoDate == {}

TopicNames == {"Algebra", "Calculus"}

\* ReviewItem(topic_id, topic_name): the dataclass defaults.
DefaultReviewItem ==
    [topic_id |-> "A", topic_name |-> "Algebra",
     ease_factor |-> INITIAL_EASE_FACTOR, interval_days |-> 1,
     repetition_count |-> 0,
     next_review_date |-> NoDate, last_review_date |-> NoDate]

\* ReviewItems a caller may hand in, built from any stored progress row.
EaseInputs == {110, 130, 131, 170, 250, 280}
ReviewItemInputs ==
    [topic_id : Ids, topic_name : TopicNames,
     ease_factor : EaseInputs, interval_days : 1..MaxIntervalInput,
     repetition_count : 0..MaxRepetitionInput,
     next_review_date : {NoDate}, last_review_date : {NoDate}]

\* EaseDelta with the inner coefficient 0.02 applied once instead of per
\* missing quality point.
EaseDeltaFlatPenalty(q) == 10 - (5 - q) * (8 + 2)

\* EaseDelta with the outer coefficient 0.12 in place of 0.08.
EaseDeltaSteeper(q) == 10 - (5 - q) * (12 + (5 - q) * 2)

\* Line 55: 0.1 - (5 - quality) * (0.08 + (5 - quality) * 0.02), in hundredths.
EaseDelta(q) == 10 - (5 - q) * (8 + (5 - q) * 2)

\* NewEase without the floor of line 56.
NewEaseNoFloor(ease, q) == ease + EaseDelta(q)

\* Lines 55-56.
NewEase(ease, q) == Max(MIN_EASE_FACTOR, ease + EaseDelta(q))

\* round(interval_days * new_ease), line 72.  The product is a binary float:
\* where the decimal product is exactly halfway between two integers the
\* float may be the tie itself (round() then takes the even neighbour) or
\* lie just off it on either side, so either neighbour can be the result.
RoundProduct(interval, ease) ==
    LET n == interval * ease
        whole == n \div 100
        rest == n % 100
    IN  IF rest < 50 THEN {whole}
        ELSE IF rest > 50 THEN {whole + 1}
        ELSE {whole, whole + 1}

\* Lines 59-72: the repetition count and the possible intervals.
NewRepetition(it, q) == IF q < 3 THEN 0 ELSE it.repetition_count + 1

\* NewIntervals with the reset taken only below quality 2.
NewIntervalsLateReset(it, q, new_ease) ==
    IF q < 2 THEN {1}
    ELSE IF NewRepetition(it, q) = 1 THEN {1}
    ELSE IF NewRepetition(it, q) = 2 THEN {6}
    ELSE RoundProduct(it.interval_days, new_ease)

\* NewIntervals with the product taken with the ease factor before the
\* update.
NewIntervalsOldEase(it, q, new_ease) ==
    IF q < 3 THEN {1}
    ELSE IF NewRepetition(it, q) = 1 THEN {1}
    ELSE IF NewRepetition(it, q) = 2 THEN {6}
    ELSE RoundProduct(it.interval_days, it.ease_factor)

\* NewIntervals without the fixed six days of the second success.
NewIntervalsNoSecondStep(it, q, new_ease) ==
    IF q < 3 THEN {1}
    ELSE IF NewRepetition(it, q) = 1 THEN {1}
    ELSE RoundProduct(it.interval_days, new_ease)

NewIntervals(it, q, new_ease) ==
    IF q < 3 THEN {1}
    ELSE IF NewRepetition(it, q) = 1 THEN {1}
    ELSE IF NewRepetition(it, q) = 2 THEN {6}
    ELSE RoundProduct(it.interval_days, new_ease)

\* calculate_next_review, lines 74-85: the ReviewItems the call may return.
\* Line 75 sets next_review_date new_interval days after now, line 84 sets
\* last_review_date to now.
CalculateNextReview(it, q) ==
    { [topic_id |-> it.topic_id,
       topic_name |-> it.topic_name,
       ease_factor |-> NewEase(it.ease_factor, q),
       interval_days |-> i,
       repetition_count |-> NewRepetition(it, q),
       next_review_date |-> {i},
       last_review_date |-> {0}] :
          i \in NewIntervals(it, q, NewEase(it.ease_factor, q)) }

\* A call that writes its new ease factor into the item it was given.
InputEaseOverwritten(it, q) ==
    [it EXCEPT !.ease_factor = NewEase(it.ease_factor, q)]

\* The item passed to calculate_next_review as it is when the call returns:
\* lines 37-85 read its fields and assign to none of them.
InputAfterCall(it, q) == it

\* The ReviewItem update_progress builds from a stored progress row
\* (main.py): the stored scheduling fields, and no dates.
ProgressReviewItem(row) ==
    [row EXCEPT !.next_review_date = NoDate, !.last_review_date = NoDate]

SMInit ==
    /\ item = DefaultReviewItem
    /\ review_item = DefaultReviewItem
    /\ quality = NoQuality
    /\ nReviews = 0
    /\ items = <<>>

SMInitAny ==
    /\ item \in ReviewItemInputs
    /\ review_item = item
    /\ quality = NoQuality
    /\ nReviews = 0
    /\ items = <<>>

\* update_progress (main.py): the stored state is made a ReviewItem, reviewed
\* with the quality of the score, and the returned fields are stored back.
\* calculate_next_review has no statement that touches self.items.
Review(q, limit) ==
    /\ nReviews < limit
    /\ \E updated \in CalculateNextReview(ProgressReviewItem(item), q) :
           /\ item' = updated
           /\ review_item' = InputAfterCall(ProgressReviewItem(item), q)
           /\ quality' = q
           /\ nReviews' = nReviews + 1
    /\ items' = items
    /\ UNCHANGED otherThanSM

SMNext == \E q \in Qualities : Review(q, MaxReviews)

SMNextAny == \E q \in Qualities : Review(q, MaxChain)

\* calculate_next_review called directly, with any int as the quality.
SMNextUnchecked == \E q \in QualityInputs : Review(q, MaxChain)

(***************************************************************************)
(* convert_score_to_quality.  A score is held in half points: 0..100 is    *)
(* 0..200, and the thresholds 95, 80, 60, 40, 20 are 190, 160, 120, 80, 40.*)
(***************************************************************************)
ScoreInputs == 0..200

\* convert_score_to_quality with the first test score > 95.
ConvertScoreStrictTop(score) ==
    IF score > 190 THEN 5
    ELSE IF score >= 160 THEN 4
    ELSE IF score >= 120 THEN 3
    ELSE IF score >= 80 THEN 2
    ELSE IF score >= 40 THEN 1
    ELSE 0

ConvertScoreToQuality(score) ==
    IF score >= 190 THEN 5
    ELSE IF score >= 160 THEN 4
    ELSE IF score >= 120 THEN 3
    ELSE IF score >= 80 THEN 2
    ELSE IF score >= 40 THEN 1
    ELSE 0

SCInit == conversions = <<>>

\* One call; the two most recent calls are kept.
ConvertScore(score) ==
    /\ conversions' =
           LET call == [score |-> score,
                        quality |-> ConvertScoreToQuality(score)]
           IN  IF Len(conversions) < 2 THEN Append(conversions, call)
               ELSE <<conversions[2], call>>
    /\ UNCHANGED otherThanSC

SCNext == \E score \in ScoreInputs : ConvertScore(score)

(***************************************************************************)
(* WeaknessDetector.  A dict is held as the sequence of its entries in     *)
(* insertion order, each entry carrying its key.  An accuracy c/t is kept  *)
(* as the pair of its counts and compared by cross-multiplication; a       *)
(* threshold is held in hundredths (0.6 is 60).                            *)
(***************************************************************************)
Users == {1, 2}

DifficultyBuckets == <<"easy", "medium", "hard">>

WindowSize == 10

\* The records submit_quiz may add, as (user, record without its timestamp).
RecordInput(user_id, topic_id, concept, difficulty, correct) ==
    [user_id |-> user_id, topic_id |-> topic_id, concept |-> concept,
     difficulty |-> difficulty, correct |-> correct]

RecordCatalogue ==
    { RecordInput(1, "A", "loops", "easy", TRUE),
      RecordInput(1, "A", "loops", "hard", FALSE),
      RecordInput(1, "A", "general", "easy", FALSE),
      RecordInput(1, "A", "general", "Hard", TRUE),
      RecordInput(1, "B", "loops", "medium", TRUE),
      RecordInput(2, "A", "loops", "easy", FALSE),
      RecordInput(2, "A", "general", "hard", TRUE),
      RecordInput(1, "A", "loops", "expert", FALSE) }

\* One learner answering on two topics.
LearnerCatalogue ==
    { RecordInput(1, "A", "loops", "easy", TRUE),
      RecordInput(1, "A", "loops", "easy", FALSE),
      RecordInput(1, "B", "general", "hard", FALSE) }

MinAttemptsInputs == {2, 3}
ThresholdInputs == {50, 60}

\* str.lower() on the difficulties that occur.
Lower(difficulty) ==
    CASE difficulty = "Easy" -> "easy"
      [] difficulty = "Medium" -> "medium"
      [] difficulty = "Hard" -> "hard"
      [] OTHER -> difficulty

\* PerformanceRecord; time_taken_seconds is never read and is left out.
PerformanceRecord(input, timestamp) ==
    [topic_id |-> input.topic_id, concept |-> input.concept,
     correct |-> input.correct, timestamp |-> timestamp,
     difficulty |-> input.difficulty]

\* Lines 42-46: the statistics of a topic seen for the first time.
NewStats(topic_id) ==
    [topic_id |-> topic_id,
     total_attempts |-> 0, correct_attempts |-> 0, total_time |-> 0,
     by_difficulty |-> [d \in {DifficultyBuckets[i] : i \in DOMAIN DifficultyBuckets} |->
                          <<0, 0>>],
     by_concept |-> <<>>,
     recent_performance |-> <<>>]

\* Bump counting an attempt only when it is correct.
BumpCorrectOnly(counts, correct) ==
    <<counts[1] + (IF correct THEN 1 ELSE 0),
      counts[2] + (IF correct THEN 1 ELSE 0)>>

\* [0] += 1; [1] += 1 if record.correct else 0.
Bump(counts, correct) ==
    <<counts[1] + 1, counts[2] + (IF correct THEN 1 ELSE 0)>>

HasTopic(user_stats, topic_id) ==
    \E i \in 1..Len(user_stats) : user_stats[i].topic_id = topic_id

TopicIndex(user_stats, topic_id) ==
    CHOOSE i \in 1..Len(user_stats) : user_stats[i].topic_id = topic_id

\* Lines 54-55 on the defaultdict by_concept.
UpdateConcept(by_concept, concept, correct) ==
    IF \E i \in 1..Len(by_concept) : by_concept[i].concept = concept
    THEN LET i == CHOOSE j \in 1..Len(by_concept) :
                      by_concept[j].concept = concept
         IN  [by_concept EXCEPT ![i].counts = Bump(@, correct)]
    ELSE Append(by_concept,
                [concept |-> concept, counts |-> Bump(<<0, 0>>, correct)])

\* LastN keeping the first n entries.
FirstN(seq, n) == IF Len(seq) <= n THEN seq ELSE SubSeq(seq, 1, n)

\* seq[-n:]
LastN(seq, n) ==
    IF Len(seq) <= n THEN seq ELSE SubSeq(seq, Len(seq) - n + 1, Len(seq))

\* Lines 48-57 on the statistics of the record's topic.
UpdateTopicStats(stats, record) ==
    [stats EXCEPT
        !.total_attempts = @ + 1,
        !.correct_attempts = @ + (IF record.correct THEN 1 ELSE 0),
        !.by_difficulty =
            IF Lower(record.difficulty) \in DOMAIN @
            THEN [@ EXCEPT ![Lower(record.difficulty)] =
                               Bump(@, record.correct)]
            ELSE @,
        !.by_concept = UpdateConcept(@, record.concept, record.correct),
        !.recent_performance =
            LastN(Append(@, <<record.timestamp, record.correct>>),
                  WindowSize)]

\* _update_stats on one user's statistics.
UpdateStats(user_stats, record) ==
    LET present ==
            IF HasTopic(user_stats, record.topic_id) THEN user_stats
            ELSE Append(user_stats, NewStats(record.topic_id))
        i == TopicIndex(present, record.topic_id)
    IN  [present EXCEPT ![i] = UpdateTopicStats(@, record)]

\* c/t < weakness_threshold with the test made c/t <= weakness_threshold.
BelowOrAt(c, t, threshold) == 100 * c <= threshold * t

\* c/t < weakness_threshold.
Below(c, t, threshold) == 100 * c < threshold * t

\* hi_c/hi_t - lo_c/lo_t > 0.15 as the float expression of line 81 decides
\* it.  Within a window of at most 10 entries the difference is exactly
\* 0.15 only as 2/5 - 1/4 and as 3/4 - 3/5, and both float differences are
\* 0.15000000000000002: an exact difference of 0.15 passes the test.
ExceedsTrendGap(hi_c, hi_t, lo_c, lo_t) ==
    20 * (hi_c * lo_t - lo_c * hi_t) >= 3 * hi_t * lo_t

CountCorrect(recent) ==
    Cardinality({i \in 1..Len(recent) : recent[i][2]})

\* _analyze_trend.
AnalyzeTrend(recent) ==
    IF Len(recent) < 4 THEN "stable"
    ELSE LET mid == Len(recent) \div 2
             first == SubSeq(recent, 1, mid)
             second == SubSeq(recent, mid + 1, Len(recent))
             f_c == CountCorrect(first)
             s_c == CountCorrect(second)
         IN  IF ExceedsTrendGap(s_c, Len(second), f_c, Len(first))
             THEN "improving"
             ELSE IF ExceedsTrendGap(f_c, Len(first), s_c, Len(second))
             THEN "declining"
             ELSE "stable"

\* Line 63: the topic is skipped altogether.
Gated(stats, min_attempts) == stats.total_attempts < min_attempts

\* Line 66: c/t < 0.5 over the buckets with attempts, in bucket order.
Reasons(stats) ==
    SelectSeq(DifficultyBuckets,
              LAMBDA d : /\ stats.by_difficulty[d][1] > 0
                         /\ 2 * stats.by_difficulty[d][2]
                                < stats.by_difficulty[d][1])

\* Line 67.  weakness_score 1 - accuracy is the pair (t - c, t).
WeakTopic(stats) ==
    [topic_id |-> stats.topic_id,
     weakness_score |-> <<stats.total_attempts - stats.correct_attempts,
                          stats.total_attempts>>,
     accuracy |-> <<stats.correct_attempts, stats.total_attempts>>,
     reasons |-> Reasons(stats)]

\* Lines 69-71 for one topic.
WeakConceptsOf(stats, threshold) ==
    LET weak == SelectSeq(stats.by_concept,
                          LAMBDA e : /\ e.counts[1] >= 2
                                     /\ Below(e.counts[2], e.counts[1],
                                              threshold))
    IN  [i \in 1..Len(weak) |->
            [concept |-> weak[i].concept,
             weakness_score |-> <<weak[i].counts[1] - weak[i].counts[2],
                                  weak[i].counts[1]>>,
             topic_ids |-> <<stats.topic_id>>]]

RECURSIVE ConcatWeakConcepts(_, _)
ConcatWeakConcepts(entries, threshold) ==
    IF entries = <<>> THEN <<>>
    ELSE WeakConceptsOf(Head(entries), threshold)
             \o ConcatWeakConcepts(Tail(entries), threshold)

\* a's weakness_score is greater than b's.
Weaker(a, b) ==
    a.weakness_score[1] * b.weakness_score[2]
        > b.weakness_score[1] * a.weakness_score[2]

\* Line 72: list.sort(key=weakness_score, reverse=True), which keeps the
\* order of equal scores.
RECURSIVE InsertByWeakness(_, _)
InsertByWeakness(sorted, x) ==
    IF sorted = <<>> THEN <<x>>
    ELSE IF Weaker(x, Head(sorted)) THEN <<x>> \o sorted
    ELSE <<Head(sorted)>> \o InsertByWeakness(Tail(sorted), x)

RECURSIVE SortByWeakness(_)
SortByWeakness(seq) ==
    IF seq = <<>> THEN <<>>
    ELSE InsertByWeakness(SortByWeakness(SubSeq(seq, 1, Len(seq) - 1)),
                          seq[Len(seq)])

RECURSIVE SumOver(_, _)
SumOver(user_stats, field) ==
    IF user_stats = <<>> THEN 0
    ELSE (IF field = "correct_attempts"
          THEN Head(user_stats).correct_attempts
          ELSE Head(user_stats).total_attempts)
             + SumOver(Tail(user_stats), field)

\* _generate_recommendations: the topic ids each message is built from.
GenerateRecommendations(weak_topics, trend_entries) ==
    LET declining == SelectSeq(trend_entries,
                               LAMBDA e : e.trend = "declining")
        ids == [i \in 1..Len(declining) |-> declining[i].topic_id]
    IN  (IF weak_topics # <<>>
         THEN << [message |-> "Priority",
                  topic_ids |-> <<weak_topics[1].topic_id>>] >>
         ELSE <<>>)
        \o (IF ids # <<>>
            THEN << [message |-> "Review needed",
                     topic_ids |-> FirstN(ids, 3)] >>
            ELSE <<>>)

\* analyze_weaknesses on one user's statistics.  improvement_trends is the
\* dict of line 68, as entries in insertion order.
AnalyzeWeaknesses(user_stats, min_attempts, threshold) ==
    LET considered == SelectSeq(user_stats,
                                LAMBDA st : ~Gated(st, min_attempts))
        weak == SelectSeq(considered,
                          LAMBDA st : Below(st.correct_attempts,
                                            st.total_attempts, threshold))
        weak_topics ==
            SortByWeakness([i \in 1..Len(weak) |-> WeakTopic(weak[i])])
        trends == [i \in 1..Len(considered) |->
                      [topic_id |-> considered[i].topic_id,
                       trend |-> AnalyzeTrend(
                                     considered[i].recent_performance)]]
    IN  [weak_topics |-> weak_topics,
         weak_concepts |-> ConcatWeakConcepts(considered, threshold),
         improvement_trends |-> trends,
         recommendations |-> GenerateRecommendations(weak_topics, trends),
         overall_score |->
             IF user_stats = <<>> THEN <<0, 1>>
             ELSE <<100 * SumOver(user_stats, "correct_attempts"),
                    Max(1, SumOver(user_stats, "total_attempts"))>>]

DefaultArgs == [user_id |-> 1, min_attempts |-> 3, weakness_threshold |-> 60]

WDInit ==
    /\ performance_history = [u \in Users |-> <<>>]
    /\ topic_stats = [u \in Users |-> <<>>]
    /\ nRecords = 0
    /\ wd_pc = "idle"
    /\ analysis_args = DefaultArgs
    /\ analysis = AnalyzeWeaknesses(<<>>, 3, 60)

\* add_performance_record; the timestamp is the time of the call.
AddPerformanceRecord(input, limit) ==
    /\ wd_pc = "idle"
    /\ nRecords < limit
    /\ LET record == PerformanceRecord(input, nRecords + 1)
       IN  /\ performance_history' =
                  [performance_history EXCEPT
                      ![input.user_id] = Append(@, record)]
           /\ topic_stats' =
                  [topic_stats EXCEPT
                      ![input.user_id] = UpdateStats(@, record)]
    /\ nRecords' = nRecords + 1
    /\ UNCHANGED <<wd_pc, analysis_args, analysis>>
    /\ UNCHANGED otherThanWD

\* analyze_weaknesses(user_id, min_attempts, weakness_threshold).
Analyze(user_id, min_attempts, threshold) ==
    /\ wd_pc = "idle"
    /\ wd_pc' = "analysed"
    /\ analysis_args' = [user_id |-> user_id, min_attempts |-> min_attempts,
                         weakness_threshold |-> threshold]
    /\ analysis' = AnalyzeWeaknesses(topic_stats[user_id], min_attempts,
                                     threshold)
    /\ UNCHANGED <<performance_history, topic_stats, nRecords>>
    /\ UNCHANGED otherThanWD

\* The caller has used the analysis.
FinishAnalysis ==
    /\ wd_pc = "analysed"
    /\ wd_pc' = "idle"
    /\ analysis_args' = DefaultArgs
    /\ analysis' = AnalyzeWeaknesses(<<>>, 3, 60)
    /\ UNCHANGED <<performance_history, topic_stats, nRecords>>
    /\ UNCHANGED otherThanWD

\* Records of every kind, a few of them.
WDNextRecords ==
    \E input \in RecordCatalogue : AddPerformanceRecord(input, MaxRecords)

\* One learner, long enough for the window of recent results to slide.
WDNextWindow ==
    \E input \in LearnerCatalogue :
        AddPerformanceRecord(input, MaxWindowRecords)

\* One learner, analysed at any moment.
WDNextAnalysis ==
    \/ \E input \in LearnerCatalogue :
           AddPerformanceRecord(input, MaxAnalysedRecords)
    \/ \E user_id \in Users, min_attempts \in MinAttemptsInputs,
          threshold \in ThresholdInputs :
           Analyze(user_id, min_attempts, threshold)
    \/ FinishAnalysis

(***************************************************************************)
(* get_study_schedule and optimize_daily_load.  A next_review_date is held *)
(* as the number of days from today: its date string is that of day d.     *)
(***************************************************************************)
\* A ReviewItem with the scheduling fields that matter here.
ScheduledItem(topic_id, interval_days, next_review_date) ==
    [topic_id |-> topic_id, topic_name |-> "Algebra",
     ease_factor |-> INITIAL_EASE_FACTOR, interval_days |-> interval_days,
     repetition_count |-> 3,
     next_review_date |-> next_review_date, last_review_date |-> NoDate]

\* Items due today, tomorrow, in three days, yesterday, and never reviewed.
ItemCatalogue ==
    { ScheduledItem("A", 1, {0}),
      ScheduledItem("B", 6, {0}),
      ScheduledItem("C", 3, {0}),
      ScheduledItem("D", 1, {1}),
      ScheduledItem("E", 6, NoDate),
      ScheduledItem("F", 2, {3}),
      ScheduledItem("G", 1, {0 - 1}) }

ItemLists == UNION { [1..n -> ItemCatalogue] : n \in 0..MaxItems }

MaxPerDayInputs == 0..2

DaysAheadInputs == {0, 1, 2, 4}

\* get_study_schedule: one bucket per day of the window, each holding the
\* items of that date in the order of the input.
GetStudySchedule(review_items, days) ==
    [i \in 1..days |->
        SelectSeq(review_items, LAMBDA it : it.next_review_date = {i - 1})]

\* SortByInterval leaving the items in the order they came.
KeepArrivalOrder(sorted, rest) == sorted \o rest

\* list.sort(key=interval_days) is stable.
InsertByInterval(sorted, it) ==
    SelectSeq(sorted, LAMBDA x : x.interval_days <= it.interval_days)
        \o <<it>>
        \o SelectSeq(sorted, LAMBDA x : x.interval_days > it.interval_days)

RECURSIVE SortByInterval(_, _)
SortByInterval(sorted, rest) ==
    IF rest = <<>> THEN sorted
    ELSE SortByInterval(InsertByInterval(sorted, Head(rest)), Tail(rest))

\* seq[n:] for n >= 0.
Drop(seq, n) ==
    IF Len(seq) <= n THEN <<>> ELSE SubSeq(seq, n + 1, Len(seq))

\* Drop losing the first carried item as well.
DropOneMore(seq, n) == Drop(seq, n + 1)

\* Line 189: the items carried forward from a sorted day.
CarriedForward(sorted_items, max_per_day) == Drop(sorted_items, max_per_day)

NoLoadArgs == [items |-> <<>>, max_per_day |-> 0, days_ahead |-> 0]

LDInit ==
    /\ ld_pc = "idle"
    /\ ld_args = NoLoadArgs
    /\ schedule = <<>>
    /\ day = 1
    /\ overflow = <<>>
    /\ adjusted_items = <<>>

\* Lines 175-177: the schedule is built and the loop starts.
EnterOptimize(review_items, max_per_day, days_ahead) ==
    /\ ld_pc' = "loop"
    /\ ld_args' = [items |-> review_items, max_per_day |-> max_per_day,
                   days_ahead |-> days_ahead]
    /\ schedule' = GetStudySchedule(review_items, days_ahead)
    /\ day' = 1
    /\ overflow' = <<>>
    /\ adjusted_items' = <<>>
    /\ UNCHANGED otherThanLD

\* Lines 179-189: one iteration, over the next date.
OptimizeDay ==
    /\ ld_pc = "loop"
    /\ day <= Len(schedule)
    /\ LET daily_items == schedule[day] \o overflow
           sorted_items == SortByInterval(<<>>, daily_items)
       IN  IF Len(daily_items) <= ld_args.max_per_day
           THEN /\ adjusted_items' = adjusted_items \o daily_items
                /\ overflow' = <<>>
           ELSE /\ adjusted_items' =
                       adjusted_items
                           \o Take(sorted_items, ld_args.max_per_day)
                /\ overflow' =
                       CarriedForward(sorted_items, ld_args.max_per_day)
    /\ day' = day + 1
    /\ UNCHANGED <<ld_pc, ld_args, schedule>>
    /\ UNCHANGED otherThanLD

\* Lines 192-194: the loop is over, the overflow is appended.
ReturnOptimized ==
    /\ ld_pc = "loop"
    /\ day > Len(schedule)
    /\ ld_pc' = "returned"
    /\ adjusted_items' = adjusted_items \o overflow
    /\ UNCHANGED <<ld_args, schedule, day, overflow>>
    /\ UNCHANGED otherThanLD

\* The caller has the list; the next call may start.
FinishOptimize ==
    /\ ld_pc = "returned"
    /\ ld_pc' = "idle"
    /\ ld_args' = NoLoadArgs
    /\ schedule' = <<>>
    /\ day' = 1
    /\ overflow' = <<>>
    /\ adjusted_items' = <<>>
    /\ UNCHANGED otherThanLD

\* A call of optimize_daily_load(items, max_per_day, days_ahead).
StartOptimize ==
    /\ ld_pc = "idle"
    /\ \E review_items \in ItemLists, max_per_day \in MaxPerDayInputs,
          days_ahead \in DaysAheadInputs :
           EnterOptimize(review_items, max_per_day, days_ahead)

LDNext ==
    \/ StartOptimize
    \/ OptimizeDay
    \/ ReturnOptimized
    \/ FinishOptimize

(***************************************************************************)
(* calculate_retention_score, in exact arithmetic: a score is the pair of  *)
(* a numerator and a positive denominator, in lowest terms.  A             *)
(* next_review_date is a whole number of days from now: later than now     *)
(* when positive.                                                          *)
(***************************************************************************)
\* Items never reviewed, due in 30 days, tomorrow, in 5 days, now, and
\* overdue by 3 and by 20 days.
RetentionCatalogue ==
    { ScheduledItem("A", 1, NoDate),
      ScheduledItem("B", 1, {30}),
      ScheduledItem("C", 1, {1}),
      ScheduledItem("D", 10, {5}),
      ScheduledItem("E", 20, {1}),
      ScheduledItem("F", 3, {0}),
      ScheduledItem("G", 3, {0 - 3}),
      ScheduledItem("H", 6, {0 - 20}) }

RetentionLists == UNION { [1..n -> RetentionCatalogue] : n \in 0..MaxItems }

Abs(a) == IF a < 0 THEN 0 - a ELSE a

RECURSIVE GCD(_, _)
GCD(a, b) == IF b = 0 THEN a ELSE GCD(b, a % b)

\* The fraction n/d, with d > 0, in lowest terms.
Fraction(n, d) ==
    LET g == GCD(Abs(n), d) IN <<n \div g, d \div g>>

AddFractions(x, y) == Fraction(x[1] * y[2] + y[1] * x[2], x[2] * y[2])

\* The date behind the optional next_review_date.
DateOf(it) == CHOOSE d \in it.next_review_date : TRUE

\* Lines 133-136: retention * (1 - days_until_review / max(interval, 1) * 0.1).
NotDueScore(it) ==
    LET retention == Min(100, 50 + it.interval_days * 5)
        tenths == 10 * Max(it.interval_days, 1)
    IN  Fraction(retention * (tenths - DateOf(it)), tenths)

\* Lines 139-141.
OverdueScore(it) ==
    LET days_overdue == 0 - DateOf(it)
        decay == Min(50, days_overdue * 5)
    IN  <<Max(0, 50 - decay), 1>>

\* Lines 128-141: what one item adds to total_score.
ItemScore(it) ==
    IF it.next_review_date = NoDate THEN <<0, 1>>
    ELSE IF DateOf(it) > 0 THEN NotDueScore(it)
    ELSE OverdueScore(it)

RECURSIVE TotalScore(_)
TotalScore(review_items) ==
    IF review_items = <<>> THEN <<0, 1>>
    ELSE AddFractions(TotalScore(Tail(review_items)),
                      ItemScore(Head(review_items)))

\* calculate_retention_score.
CalculateRetentionScore(review_items) ==
    IF review_items = <<>> THEN <<0, 1>>
    ELSE Fraction(TotalScore(review_items)[1],
                  TotalScore(review_items)[2] * Len(review_items))

RTInit ==
    /\ rt_pc = "idle"
    /\ rt_items = <<>>
    /\ rt_score = <<0, 1>>

\* A call of calculate_retention_score(items).
ScoreRetention ==
    /\ rt_pc = "idle"
    /\ rt_pc' = "scored"
    /\ \E review_items \in RetentionLists :
           /\ rt_items' = review_items
           /\ rt_score' = CalculateRetentionScore(review_items)
    /\ UNCHANGED otherThanRT

\* The caller has the score; the next call may start.
FinishRetention ==
    /\ rt_pc = "scored"
    /\ rt_pc' = "idle"
    /\ rt_items' = <<>>
    /\ rt_score' = <<0, 1>>
    /\ UNCHANGED otherThanRT

RTNext ==
    \/ ScoreRetention
    \/ FinishRetention

(***************************************************************************)
(* The specifications.                                                     *)
(***************************************************************************)
Init == KGInit /\ SMInit /\ SCInit /\ WDInit /\ LDInit /\ RTInit

InitAny == KGInit /\ SMInitAny /\ SCInit /\ WDInit /\ LDInit /\ RTInit

SpecKG == Init /\ [][KGNext]_vars

SpecRec == Init /\ [][RecNext]_vars

SpecSM2 == Init /\ [][SMNext]_vars

SpecSM2Any == InitAny /\ [][SMNextAny]_vars

SpecSM2Unchecked == InitAny /\ [][SMNextUnchecked]_vars

SpecScore == Init /\ [][SCNext]_vars

SpecWDRecords == Init /\ [][WDNextRecords]_vars

SpecWDWindow == Init /\ [][WDNextWindow]_vars

SpecWDAnalysis == Init /\ [][WDNextAnalysis]_vars

SpecLoad == Init /\ [][LDNext]_vars

SpecRetention == Init /\ [][RTNext]_vars

\* A call that has started keeps running: the interpreter does not stall.
SpecDepth == Init /\ [][DepthNext]_vars /\ WF_vars(DepthRun)

(***************************************************************************)
(* KnowledgeGraph: the vocabulary of the properties.                       *)
(***************************************************************************)
Range(s) == {s[i] : i \in DOMAIN s}

NoDuplicates(s) == \A i, j \in DOMAIN s : i # j => s[i] # s[j]

\* The prerequisites topic t lists now.
PrereqSet(t) == Range(adjacency_list[t])

\* The ids of S reached from `front` through prerequisite edges that stay
\* inside S.
RECURSIVE PrereqClosure(_, _)
PrereqClosure(front, S) ==
    LET next == front \cup {p \in S : \E u \in front : p \in PrereqSet(u)}
    IN  IF next = front THEN front ELSE PrereqClosure(next, S)

\* t lies on a prerequisite cycle all of whose topics are in S.
OnCycleWithin(t, S) ==
    /\ t \in S
    /\ t \in PrereqClosure({p \in S : p \in PrereqSet(t)}, S)

Acyclic == \A t \in Ids : ~OnCycleWithin(t, Ids)

AllPrerequisitesExist ==
    \A t \in DOMAIN topics : PrereqSet(t) \subseteq DOMAIN topics

\* The required set of the glossary: the target and its direct and
\* transitive prerequisites, not looking at or through a completed topic.
RequiredSet(tgt, done) ==
    IF tgt \in done THEN {} ELSE PrereqClosure({tgt}, Ids \ done)

Returned == pc = "done"
CallEnded == pc \in {"done", "raised"}

(***************************************************************************)
(* C1: on an acyclic graph whose prerequisite ids all exist, however it    *)
(* was built by add_topic calls, get_learning_path returns every topic of  *)
(* the required set exactly once, each prerequisite before the topic that  *)
(* lists it.                                                               *)
(***************************************************************************)
C1_PathIsTopologicalOrder ==
    (CallEnded /\ Acyclic /\ AllPrerequisitesExist /\ target \in DOMAIN topics)
    => /\ Returned
       /\ Range(sorted_path) = RequiredSet(target, completed)
       /\ NoDuplicates(sorted_path)
       /\ \A i, j \in DOMAIN sorted_path :
              sorted_path[j] \in PrereqSet(sorted_path[i]) => j < i

(***************************************************************************)
(* C2: get_learning_path never raises on an unknown id (an unknown target  *)
(* gives the empty path, an unknown prerequisite is skipped).              *)
(***************************************************************************)
C2_NeverRaises == pc # "raised"

(***************************************************************************)
(* C3: on any graph built by add_topic calls, cycles included, no topic    *)
(* that lies on a prerequisite cycle inside the required set is in the     *)
(* returned path.                                                          *)
(***************************************************************************)
C3_CycleTopicsOmitted ==
    Returned =>
        \A i \in DOMAIN sorted_path :
            ~OnCycleWithin(sorted_path[i], RequiredSet(target, completed))

(***************************************************************************)
(* C4: add_topic called again with a record identical to the stored one    *)
(* leaves adjacency_list and reverse_adjacency as the first call left      *)
(* them.                                                                   *)
(***************************************************************************)
C4_AddTopicIdempotent ==
    [][(nAdds' = nAdds + 1 /\ topics' = topics)
         => (adjacency_list' = adjacency_list
             /\ reverse_adjacency' = reverse_adjacency)]_vars

(***************************************************************************)
(* C5: after any sequence of add_topic calls, t is listed in               *)
(* reverse_adjacency[p] exactly when p is in adjacency_list[t].            *)
(***************************************************************************)
C5_IndexesConsistent ==
    \A t, p \in Ids :
        (t \in Range(reverse_adjacency[p])) <=> (p \in PrereqSet(t))

(***************************************************************************)
(* C6: get_learning_path never returns a completed topic, and with every   *)
(* topic of a (non-empty) graph completed it returns the empty sequence.   *)
(***************************************************************************)
C6_CompletedExcluded ==
    CallEnded =>
        /\ \A i \in DOMAIN sorted_path : sorted_path[i] \notin completed
        /\ (topics # <<>> /\ DOMAIN topics \subseteq completed)
               => (Returned /\ sorted_path = <<>>)
(***************************************************************************)
(* Spaced repetition: the vocabulary of the properties.                    *)
(***************************************************************************)
Reviewed == nReviews > 0

\* The ease change per quality, in hundredths, as the table states it.
StatedEaseChange ==
    [q \in Qualities |->
        CASE q = 5 -> 10
          [] q = 4 -> 0
          [] q = 3 -> -14
          [] q = 2 -> -32
          [] q = 1 -> -54
          [] q = 0 -> -80]

\* x is an integer nearest to interval * ease (ease in hundredths).
IsRounded(x, interval, ease) ==
    /\ 100 * x - interval * ease <= 50
    /\ interval * ease - 100 * x <= 50

(***************************************************************************)
(* C7: the returned ease factor is max(1.3, ease + d(q)) with d(5) = +0.10,*)
(* d(4) = 0, d(3) = -0.14, d(2) = -0.32, d(1) = -0.54, d(0) = -0.80, so an *)
(* ease factor below 1.3 is never one a review returned.                   *)
(***************************************************************************)
C7_EaseUpdate ==
    /\ Reviewed =>
           item.ease_factor =
               Max(130, review_item.ease_factor + StatedEaseChange[quality])
    /\ item.ease_factor < 130 => ~Reviewed

\* A review whose unfloored ease would be below 1.3 returned 1.3.
C7_Witness ==
    /\ Reviewed
    /\ review_item.ease_factor >= 130
    /\ review_item.ease_factor + StatedEaseChange[quality] < 130
    /\ item.ease_factor = 130

(***************************************************************************)
(* C8: whatever the input item, a review with quality 0, 1 or 2 returns    *)
(* repetition_count 0 and interval_days 1.                                 *)
(***************************************************************************)
C8_FailedRecallResets ==
    (Reviewed /\ quality \in 0..2)
    => (item.repetition_count = 0 /\ item.interval_days = 1)

\* A failed review of an item that had repetitions and a long interval.
C8_Witness ==
    /\ Reviewed
    /\ quality = 2
    /\ review_item.repetition_count >= 3
    /\ review_item.interval_days > 6
    /\ item.repetition_count = 0
    /\ item.interval_days = 1

(***************************************************************************)
(* C9: a review with quality 3, 4 or 5 returns repetition_count + 1, and   *)
(* interval_days 1 at the first repetition, 6 at the second, and otherwise *)
(* the old interval_days times the new, floored ease factor, rounded.      *)
(***************************************************************************)
C9_SuccessfulRecall ==
    (Reviewed /\ quality \in 3..5)
    => /\ item.repetition_count = review_item.repetition_count + 1
       /\ item.repetition_count = 1 => item.interval_days = 1
       /\ item.repetition_count = 2 => item.interval_days = 6
       /\ item.repetition_count > 2 =>
              IsRounded(item.interval_days, review_item.interval_days,
                        item.ease_factor)

\* A third or later repetition whose ease factor was floored at 1.3 and
\* whose product with the old ease factor would round differently.
C9_Witness ==
    /\ Reviewed
    /\ quality = 3
    /\ item.repetition_count > 2
    /\ review_item.ease_factor - 14 < 130
    /\ item.ease_factor = 130
    /\ ~IsRounded(item.interval_days, review_item.interval_days,
                  review_item.ease_factor)

(***************************************************************************)
(* C10: from a default ReviewItem, after any reviews, a review of quality  *)
(* 3 or more never returns a smaller interval_days than the item it was    *)
(* given, so interval_days never decreases along a run of such reviews.    *)
(***************************************************************************)
C10_IntervalNonDecreasing ==
    (Reviewed /\ quality >= 3)
    => item.interval_days >= review_item.interval_days

\* After failures took the ease factor to its floor, a third successful
\* review in a row lengthens the interval.
C10_Witness ==
    /\ Reviewed
    /\ quality >= 3
    /\ item.repetition_count >= 3
    /\ item.ease_factor = 130
    /\ item.interval_days > review_item.interval_days

(***************************************************************************)
(* C11: a ReviewItem with ease 2.5, interval 6 and repetition 2, reviewed  *)
(* with quality 4, comes back with repetition_count 3 and interval_days    *)
(* 15.  As first stated, with an ease factor of about 2.46.                *)
(***************************************************************************)
ScenarioReviewed ==
    /\ Reviewed
    /\ review_item.ease_factor = 250
    /\ review_item.interval_days = 6
    /\ review_item.repetition_count = 2
    /\ quality = 4

C11_ScenarioAsStated ==
    ScenarioReviewed
    => /\ item.ease_factor = 246
       /\ item.repetition_count = 3
       /\ item.interval_days = 15

\* As amended: quality 4 leaves the ease factor at 2.5.
C11_Scenario ==
    ScenarioReviewed
    => /\ item.ease_factor = 250
       /\ item.repetition_count = 3
       /\ item.interval_days = 15

C11_Witness ==
    /\ ScenarioReviewed
    /\ item.repetition_count = 3
    /\ item.interval_days = 15

(***************************************************************************)
(* C12: a call with a quality outside 0..5 fails and returns no            *)
(* ReviewItem: every call that returned one was given a quality in 0..5.   *)
(***************************************************************************)
C12_InvalidQualityRejected == Reviewed => quality \in Qualities

(***************************************************************************)
(* C13: a call leaves every field of the item it was given as it was, and  *)
(* leaves the service's items map as it was; the item it returns carries   *)
(* the topic_id and topic_name of the item it was given.                   *)
(***************************************************************************)
C13_InputAndItemsUntouched ==
    [][nReviews' = nReviews + 1 =>
           /\ review_item' = ProgressReviewItem(item)
           /\ items' = items
           /\ item'.topic_id = ProgressReviewItem(item).topic_id
           /\ item'.topic_name = ProgressReviewItem(item).topic_name]_vars

\* A call that returned an item differing from the one it was given in the
\* ease factor, the interval, the repetition count and both dates.
C13_Witness ==
    /\ Reviewed
    /\ item.ease_factor # review_item.ease_factor
    /\ item.interval_days # review_item.interval_days
    /\ item.repetition_count # review_item.repetition_count
    /\ item.next_review_date # NoDate
    /\ item.last_review_date # NoDate
    /\ review_item.next_review_date = NoDate
    /\ review_item.last_review_date = NoDate
    /\ item.topic_id = review_item.topic_id
    /\ item.topic_name = review_item.topic_name

(***************************************************************************)
(* C14: convert_score_to_quality is a non-decreasing step function of the  *)
(* score: 5 from 95, 4 from 80, 3 from 60, 2 from 40, 1 from 20, else 0;   *)
(* so 100 gives 5 and 0 gives 0.  Scores are in half points.               *)
(***************************************************************************)
StatedThresholds == {40, 80, 120, 160, 190}

C14_ScoreToQuality ==
    /\ \A i \in 1..Len(conversions) :
           /\ conversions[i].quality =
                  Cardinality({t \in StatedThresholds :
                                   conversions[i].score >= t})
           /\ conversions[i].score = 200 => conversions[i].quality = 5
           /\ conversions[i].score = 0 => conversions[i].quality = 0
    /\ (Len(conversions) = 2 /\ conversions[1].score <= conversions[2].score)
       => conversions[1].quality <= conversions[2].quality

\* A score just under 95 followed by exactly 95: quality 4, then 5.
C14_Witness ==
    /\ Len(conversions) = 2
    /\ conversions[1].score = 189
    /\ conversions[2].score = 190
    /\ conversions[1].quality = 4
    /\ conversions[2].quality = 5

(***************************************************************************)
(* WeaknessDetector: the vocabulary of the properties.                     *)
(***************************************************************************)
StatedDifficulties == {"easy", "medium", "hard"}

\* The records added for a user and a topic, in arrival order.
RecordsOf(user_id, topic_id) ==
    SelectSeq(performance_history[user_id],
              LAMBDA r : r.topic_id = topic_id)

CorrectOnes(records) ==
    Cardinality({i \in 1..Len(records) : records[i].correct})

RECURSIVE SumAttempts(_)
SumAttempts(by_concept) ==
    IF by_concept = <<>> THEN 0
    ELSE Head(by_concept).counts[1] + SumAttempts(Tail(by_concept))

Analysed == wd_pc = "analysed"

AnalysedStats == topic_stats[analysis_args.user_id]

(***************************************************************************)
(* C15: when every record added carries the difficulty easy, medium or     *)
(* hard, then for every user and topic total_attempts is the number of the *)
(* user's records for the topic, correct_attempts the number of correct    *)
(* ones, and the attempt counts of by_concept and of by_difficulty each    *)
(* add up to total_attempts.                                               *)
(***************************************************************************)
C15_CountersMatchRecords ==
    (\A u \in Users : \A i \in 1..Len(performance_history[u]) :
         performance_history[u][i].difficulty \in StatedDifficulties)
    => \A u \in Users : \A t \in Ids :
           /\ HasTopic(topic_stats[u], t) <=> RecordsOf(u, t) # <<>>
           /\ HasTopic(topic_stats[u], t) =>
                  LET st == topic_stats[u][TopicIndex(topic_stats[u], t)]
                  IN  /\ st.total_attempts = Len(RecordsOf(u, t))
                      /\ st.correct_attempts = CorrectOnes(RecordsOf(u, t))
                      /\ st.correct_attempts <= st.total_attempts
                      /\ SumAttempts(st.by_concept) = st.total_attempts
                      /\ st.by_difficulty["easy"][1]
                             + st.by_difficulty["medium"][1]
                             + st.by_difficulty["hard"][1]
                         = st.total_attempts

\* Three records of user 1 on topic A over two concepts and two
\* difficulties, one of them correct, and a record of user 2.
C15_Witness ==
    /\ \A u \in Users : \A i \in 1..Len(performance_history[u]) :
           performance_history[u][i].difficulty \in StatedDifficulties
    /\ Len(RecordsOf(1, "A")) = 3
    /\ Len(RecordsOf(2, "A")) = 1
    /\ HasTopic(topic_stats[1], "A")
    /\ LET st == topic_stats[1][TopicIndex(topic_stats[1], "A")]
       IN  /\ st.total_attempts = 3
           /\ st.correct_attempts = 1
           /\ Len(st.by_concept) = 2
           /\ st.by_difficulty["easy"][1] = 2
           /\ st.by_difficulty["hard"][1] = 1

(***************************************************************************)
(* C16: recent_performance of a user and topic is the (timestamp, correct) *)
(* pairs of the last min(n, 10) of the n records added for them, in        *)
(* arrival order: never more than 10, the oldest dropped first.            *)
(***************************************************************************)
C16_RecentWindow ==
    \A u \in Users : \A t \in Ids :
        HasTopic(topic_stats[u], t) =>
            LET recent == topic_stats[u][TopicIndex(topic_stats[u], t)]
                              .recent_performance
                records == RecordsOf(u, t)
                n == Len(records)
            IN  /\ Len(recent) = Min(n, 10)
                /\ Len(recent) <= 10
                /\ \A k \in 1..Len(recent) :
                       recent[k] =
                           <<records[n - Len(recent) + k].timestamp,
                             records[n - Len(recent) + k].correct>>

\* Eleven records on topic A with one on topic B among them: the window
\* holds ten, and the first record of topic A is gone.
C16_Witness ==
    /\ Len(RecordsOf(1, "A")) = 11
    /\ Len(RecordsOf(1, "B")) = 1
    /\ RecordsOf(1, "B")[1].timestamp \in 2..11
    /\ LET recent == topic_stats[1][TopicIndex(topic_stats[1], "A")]
                         .recent_performance
       IN  /\ Len(recent) = 10
           /\ recent[1][1] = RecordsOf(1, "A")[2].timestamp
           /\ recent[10][1] = 12

(***************************************************************************)
(* C17: analyze_weaknesses lists a topic in weak_topics exactly when its   *)
(* total_attempts >= min_attempts and correct_attempts / total_attempts <  *)
(* weakness_threshold, with weakness_score 1 - accuracy; with the defaults *)
(* a topic with 5 attempts, 1 correct, is listed with score 0.8.           *)
(***************************************************************************)
C17_WeakTopics ==
    Analysed =>
        /\ \A i \in 1..Len(AnalysedStats) :
               LET st == AnalysedStats[i]
               IN  (\E k \in 1..Len(analysis.weak_topics) :
                        analysis.weak_topics[k].topic_id = st.topic_id)
                   <=> /\ st.total_attempts >= analysis_args.min_attempts
                       /\ 100 * st.correct_attempts
                              < analysis_args.weakness_threshold
                                    * st.total_attempts
        /\ \A k \in 1..Len(analysis.weak_topics) :
               LET w == analysis.weak_topics[k]
               IN  /\ HasTopic(AnalysedStats, w.topic_id)
                   /\ LET st == AnalysedStats[
                                    TopicIndex(AnalysedStats, w.topic_id)]
                      IN  w.weakness_score[1] * st.total_attempts
                              = (st.total_attempts - st.correct_attempts)
                                    * w.weakness_score[2]
                   /\ (analysis_args = DefaultArgs
                       /\ w.accuracy = <<1, 5>>)
                      => 10 * w.weakness_score[1] = 8 * w.weakness_score[2]

\* The default analysis of a learner with 5 attempts, 1 correct, on topic
\* A and 2 attempts on topic B: A is listed with score 0.8, B is not.
C17_Witness ==
    /\ Analysed
    /\ analysis_args = DefaultArgs
    /\ Len(analysis.weak_topics) = 1
    /\ analysis.weak_topics[1].topic_id = "A"
    /\ analysis.weak_topics[1].accuracy = <<1, 5>>
    /\ analysis.weak_topics[1].weakness_score = <<4, 5>>
    /\ Len(RecordsOf(1, "B")) = 2

(***************************************************************************)
(* C18: analyze_weaknesses lists a concept in weak_concepts whenever it    *)
(* has at least 2 attempts within a topic and an accuracy below            *)
(* weakness_threshold, whether or not the topic's total_attempts reaches   *)
(* min_attempts.                                                           *)
(***************************************************************************)
C18_WeakConceptsUngated ==
    Analysed =>
        \A i \in 1..Len(AnalysedStats) :
            \A j \in 1..Len(AnalysedStats[i].by_concept) :
                LET st == AnalysedStats[i]
                    e == st.by_concept[j]
                IN  (/\ e.counts[1] >= 2
                     /\ 100 * e.counts[2]
                            < analysis_args.weakness_threshold * e.counts[1])
                    => \E k \in 1..Len(analysis.weak_concepts) :
                           /\ analysis.weak_concepts[k].concept = e.concept
                           /\ analysis.weak_concepts[k].topic_ids
                                  = <<st.topic_id>>

(***************************************************************************)
(* C19: for each topic the user has statistics for, analyze_weaknesses     *)
(* reports a trend from recent_performance of length n: stable when n < 4; *)
(* otherwise, splitting at floor(n / 2), improving if the second half's    *)
(* accuracy exceeds the first half's by more than 0.15, declining if the   *)
(* first half's exceeds the second half's by more than 0.15, else stable.  *)
(***************************************************************************)
StatedTrend(recent) ==
    IF Len(recent) < 4 THEN "stable"
    ELSE LET mid == Len(recent) \div 2
             f_t == mid
             s_t == Len(recent) - mid
             f_c == Cardinality({i \in 1..mid : recent[i][2]})
             s_c == Cardinality({i \in (mid + 1)..Len(recent) :
                                     recent[i][2]})
         IN  IF 20 * (s_c * f_t - f_c * s_t) > 3 * f_t * s_t
             THEN "improving"
             ELSE IF 20 * (f_c * s_t - s_c * f_t) > 3 * f_t * s_t
             THEN "declining"
             ELSE "stable"

C19_TrendPerTopic ==
    Analysed =>
        \A i \in 1..Len(AnalysedStats) :
            \E k \in 1..Len(analysis.improvement_trends) :
                /\ analysis.improvement_trends[k].topic_id
                       = AnalysedStats[i].topic_id
                /\ analysis.improvement_trends[k].trend
                       = StatedTrend(AnalysedStats[i].recent_performance)

(***************************************************************************)
(* C20: recommend_next_topics returns its candidate list, stably sorted by *)
(* ascending difficulty_level (ties keep the candidate order) and cut to   *)
(* the first max_n entries.  The candidate list is the weak topics present *)
(* in the graph, in the order in which the weak ids were walked, followed  *)
(* by every topic that is not completed and whose prerequisites are all    *)
(* completed.                                                              *)
(***************************************************************************)
Recommended == pc = "recommended"

\* The topics the second part of the candidate list holds.
StatedUnlocked ==
    { t \in DOMAIN topics :
        /\ t \notin rec_args.completed_topics
        /\ \A i \in DOMAIN adjacency_list[t] :
               adjacency_list[t][i] \in rec_args.completed_topics }

\* The first part: the weak ids as walked, without those not in the graph.
StatedWeakPart == SelectSeq(weak_order, LAMBDA t : t \in DOMAIN topics)

\* Where a stable ascending sort puts candidate k.
SortedPosition(candidates, k) ==
    Cardinality({j \in 1..Len(candidates) :
                     \/ topics[candidates[j]].difficulty_level
                            < topics[candidates[k]].difficulty_level
                     \/ /\ j <= k
                        /\ topics[candidates[j]].difficulty_level
                               = topics[candidates[k]].difficulty_level})

Occurrences(seq, x) == Cardinality({i \in 1..Len(seq) : seq[i] = x})

\* a and b hold the same items the same number of times.
SameItems(a, b) ==
    \A x \in ItemCatalogue : Occurrences(a, x) = Occurrences(b, x)

\* What a step appends to the output list.
Appended == SubSeq(adjusted_items', Len(adjusted_items) + 1,
                   Len(adjusted_items'))

(***************************************************************************)
(* C21: optimize_daily_load takes the days of the window in date order.    *)
(* Each day gets at most max_per_day items out of the items scheduled on   *)
(* it and the overflow of the day before; when there are more, it gets the *)
(* max_per_day items of smallest interval_days and all others are carried  *)
(* to the next day.  The overflow left after the last day goes to the end  *)
(* of the output.                                                          *)
(***************************************************************************)
C21_GreedyForwardCarry ==
    [][/\ (ld_pc = "loop" /\ day' = day + 1) =>
            LET available ==
                    SelectSeq(ld_args.items,
                              LAMBDA it : it.next_review_date = {day - 1})
                        \o overflow
            IN  /\ day \in 1..ld_args.days_ahead
                /\ adjusted_items' = adjusted_items \o Appended
                /\ Len(Appended) = Min(ld_args.max_per_day, Len(available))
                /\ SameItems(Appended \o overflow', available)
                /\ \A i \in 1..Len(Appended), j \in 1..Len(overflow') :
                       Appended[i].interval_days
                           <= overflow'[j].interval_days
       /\ (ld_pc = "loop" /\ ld_pc' = "returned") =>
            /\ day = ld_args.days_ahead + 1
            /\ adjusted_items' = adjusted_items \o overflow]_vars

\* Three items due today with one allowed per day over two days: the first
\* day kept the shortest interval, the second day the next, and the third
\* item is the overflow at the end of the output.
C21_Witness ==
    /\ ld_pc = "returned"
    /\ ld_args.max_per_day = 1
    /\ ld_args.days_ahead = 2
    /\ Len(schedule[1]) = 3
    /\ Len(adjusted_items) = 3
    /\ overflow = <<adjusted_items[3]>>
    /\ adjusted_items[1].interval_days < adjusted_items[2].interval_days
    /\ adjusted_items[2].interval_days < adjusted_items[3].interval_days
    /\ adjusted_items[1] # schedule[1][1]

(***************************************************************************)
(* C25: optimize_daily_load returns the items with adjusted review dates:  *)
(* an item carried forward has its next_review_date moved to the day it    *)
(* was reassigned to, so that no day of the window has more than           *)
(* max_per_day of the returned items dated on it.                          *)
(***************************************************************************)
C25_ReturnedDatesBalanced ==
    ld_pc = "returned" =>
        \A d \in 0..(ld_args.days_ahead - 1) :
            Cardinality({i \in 1..Len(adjusted_items) :
                             adjusted_items[i].next_review_date = {d}})
                <= ld_args.max_per_day

(***************************************************************************)
(* C27: optimize_daily_load neither loses nor duplicates items: whatever   *)
(* max_per_day and days_ahead, its output holds exactly the input items    *)
(* whose next_review_date is on one of the days_ahead days of the window,  *)
(* each as many times as the input; items with no date or a date outside   *)
(* the window are absent.                                                  *)
(***************************************************************************)
InWindow(it) ==
    \E d \in 0..(ld_args.days_ahead - 1) : it.next_review_date = {d}

C27_PermutationOfWindow ==
    ld_pc = "returned" =>
        /\ SameItems(adjusted_items, SelectSeq(ld_args.items, InWindow))
        /\ \A i \in 1..Len(adjusted_items) : InWindow(adjusted_items[i])

\* Four input items: one never reviewed, one dated before the window, and
\* two due today of which one was carried past the last day.
C27_Witness ==
    /\ ld_pc = "returned"
    /\ Len(ld_args.items) = 4
    /\ \E i \in 1..4 : ld_args.items[i].next_review_date = NoDate
    /\ \E i \in 1..4 : ld_args.items[i].next_review_date = {0 - 1}
    /\ ld_args.max_per_day = 1
    /\ ld_args.days_ahead = 1
    /\ Len(adjusted_items) = 2
    /\ Len(overflow) = 1
    /\ adjusted_items[1] # adjusted_items[2]

(***************************************************************************)
(* C22: calculate_retention_score returns a value in [0, 100] for every    *)
(* list of ReviewItems, whatever their interval_days >= 1 and their        *)
(* next_review_date (past, future or unset), and 0 for the empty list.     *)
(***************************************************************************)
C22_ScoreWithinPercent ==
    rt_pc = "scored" =>
        /\ rt_score[1] >= 0
        /\ rt_score[1] <= 100 * rt_score[2]
        /\ rt_items = <<>> => rt_score[1] = 0

(***************************************************************************)
(* C23: get_topic_depth(id) has no cycle guard.  With no prerequisite      *)
(* cycle reachable from id the call terminates and returns 0 for an        *)
(* unknown id or a topic without prerequisites, and otherwise 1 + the      *)
(* maximum depth of its prerequisites.  As stated: when a prerequisite     *)
(* cycle among known topics is reachable from id, the recursion never      *)
(* terminates (the call never ends).                                       *)
(***************************************************************************)
\* A prerequisite cycle among known topics is reachable from id.
CycleReachable(id) ==
    /\ id \in DOMAIN topics
    /\ \E t \in PrereqClosure({id}, DOMAIN topics) :
           OnCycleWithin(t, DOMAIN topics)

MaxOf(S) == CHOOSE m \in S : \A x \in S : x <= m

\* The stated depth, on a graph without a cycle reachable from id.
RECURSIVE StatedDepth(_)
StatedDepth(id) ==
    IF id \notin DOMAIN topics \/ PrereqSet(id) = {} THEN 0
    ELSE 1 + MaxOf({StatedDepth(p) : p \in PrereqSet(id)})

DepthReturned == pc = "depth_returned"
DepthEnded == pc \in {"depth_returned", "depth_raised"}

C23_CycleNeverTerminates ==
    /\ (DepthEnded /\ ~CycleReachable(depth_target)) =>
           /\ DepthReturned
           /\ depth_result = {StatedDepth(depth_target)}
    /\ CycleReachable(depth_target) => ~DepthEnded

(***************************************************************************)
(* C23, amended: every call of get_topic_depth ends.  With no cycle        *)
(* reachable from id it returns the stated depth; with a prerequisite      *)
(* cycle among known topics reachable from id it never returns a depth:    *)
(* the recursion deepens until the interpreter's recursion limit and the   *)
(* call ends by raising RecursionError.                                    *)
(***************************************************************************)
C23_DepthOrRecursionError ==
    /\ [](DepthEnded =>
            IF CycleReachable(depth_target)
            THEN pc = "depth_raised"
            ELSE /\ DepthReturned
                 /\ depth_result = {StatedDepth(depth_target)})
    /\ (pc = "depth") ~> DepthEnded

C23_Witness ==
    /\ pc = "depth_raised"
    /\ CycleReachable(depth_target)
    /\ depth_target \in DOMAIN topics
    /\ PrereqSet(depth_target) # {}

(***************************************************************************)
(* C24: in get_learning_path, every topic appended to the path has, at     *)
(* the moment it is extracted, the minimal difficulty_level among all      *)
(* required topics that then have zero remaining in-degree and have not    *)
(* yet been output.                                                        *)
(***************************************************************************)
\* The required topics with zero remaining in-degree, not yet output.
Candidates ==
    {t \in required_topics : in_degree[t] = 0 /\ t \notin Range(sorted_path)}

C24_MinimalDifficultyExtracted ==
    [][(pc = "topo" /\ Len(sorted_path') = Len(sorted_path) + 1) =>
          \A t \in Candidates :
              DifficultyKey(sorted_path'[Len(sorted_path')])
                  <= DifficultyKey(t)]_vars

\* The first topic was extracted before a harder one that was also ready.
C24_Witness ==
    /\ pc = "topo"
    /\ Len(sorted_path) = 1
    /\ \E t \in Range(queue) :
           /\ t \in Candidates
           /\ t \notin Range(reverse_adjacency[sorted_path[1]])
           /\ DifficultyKey(t) > DifficultyKey(sorted_path[1])

(***************************************************************************)
(* C26: recommend_next_topics never returns the same topic id twice, for   *)
(* any completed ids and weak ids, a weak topic that is not completed and  *)
(* whose prerequisites are all completed included.                         *)
(***************************************************************************)
C26_NoTopicTwice ==
    Recommended =>
        \A i, j \in DOMAIN recommendations :
            i # j => recommendations[i].topic.id # recommendations[j].topic.id

(***************************************************************************)
(* C28: every ReviewItem reached from the default item (ease 2.5,          *)
(* interval 1, repetition 0) by calculate_next_review calls with qualities *)
(* in 0..5 has interval_days >= 1 and repetition_count >= 0, with          *)
(* interval_days = 1 whenever repetition_count is 0 or 1 and               *)
(* interval_days = 6 whenever repetition_count is 2.                       *)
(***************************************************************************)
C28_ItemShape ==
    /\ item.interval_days >= 1
    /\ item.repetition_count >= 0
    /\ item.repetition_count \in {0, 1} => item.interval_days = 1
    /\ item.repetition_count = 2 => item.interval_days = 6

\* A second success in a row after an earlier failure reset the item.
C28_Witness ==
    /\ nReviews >= 4
    /\ item.repetition_count = 2
    /\ item.interval_days = 6
    /\ item.ease_factor < INITIAL_EASE_FACTOR
====
